---- MODULE Spec2Model ----
(***************************************************************************)
(* A model of app.py, the NFL scores dashboard: the loader/normaliser      *)
(* (load_data), the KPI block, the head-to-head tab, the time tab and the  *)
(* stadium tab, executed top to bottom on every render pass.               *)
(*                                                                         *)
(* A table row is a function from column names to values.  A raw cell of   *)
(* the CSV file is a record [k, n, s]:                                     *)
(*   k = "blank"  an empty cell (read_csv yields NaN)                      *)
(*   k = "int"    the decimal literal of the integer n                     *)
(*   k = "text"   the text s, which is no number and no date               *)
(*   k = "date"   the text YYYY-MM-DD, kept as n = YYYYMMDD                *)
(* A value of the normalised table is a record [k, n, s]:                  *)
(*   k = "nan"    a missing value (NaN, NaT, <NA>)                         *)
(*   k = "num"    the number n                                             *)
(*   k = "str"    the string s                                             *)
(*   k = "date"   the timestamp of day n = YYYYMMDD                        *)
(* A mean is a record [k, num, den]: k = "nan", or k = "frac" for num/den. *)
(***************************************************************************)
EXTENDS Integers, Sequences, FiniteSets, TLC

VARIABLES file, pc, df, err, out, shown

vars == <<file, pc, df, err, out, shown>>

-----------------------------------------------------------------------------
(* Values *)

Blank == [k |-> "blank", n |-> 0, s |-> ""]
IntTok(i) == [k |-> "int", n |-> i, s |-> ""]
Text(x) == [k |-> "text", n |-> 0, s |-> x]
DateTok(d) == [k |-> "date", n |-> d, s |-> ""]

NaN == [k |-> "nan", n |-> 0, s |-> ""]
Num(i) == [k |-> "num", n |-> i, s |-> ""]
Str(x) == [k |-> "str", n |-> 0, s |-> x]
Date(d) == [k |-> "date", n |-> d, s |-> ""]

IsNaN(v) == v.k = "nan"

RECURSIVE GCD(_, _)
GCD(a, b) == IF b = 0 THEN a ELSE GCD(b, a % b)

\* a / b for a >= 0 and b > 0, in lowest terms: equal quotients (equal
\* floats) are equal records.
NoMean == [k |-> "nan", num |-> 0, den |-> 1]
Frac(a, b) == [k |-> "frac", num |-> a \div GCD(a, b), den |-> b \div GCD(a, b)]

\* Series + Series and Series - Series: a missing operand gives a missing result.
Add(x, y) == IF x.k = "num" /\ y.k = "num" THEN Num(x.n + y.n) ELSE NaN
Sub(x, y) == IF x.k = "num" /\ y.k = "num" THEN Num(x.n - y.n) ELSE NaN

\* Comparisons with NaN are False.
Gt0(v) == v.k = "num" /\ v.n > 0
Lt0(v) == v.k = "num" /\ v.n < 0
AbsLe3(v) == v.k = "num" /\ (IF v.n < 0 THEN -v.n ELSE v.n) <= 3

SeqToSet(sq) == {sq[i] : i \in 1..Len(sq)}

-----------------------------------------------------------------------------
(* The calendar fields pandas derives from a timestamp *)

YearOf(d) == d \div 10000
MonthOf(d) == (d \div 100) % 100
DayOf(d) == d % 100

IsLeap(y) == (y % 4 = 0 /\ y % 100 # 0) \/ y % 400 = 0

DaysBeforeMonth(y, m) ==
    LET cum == <<0, 31, 59, 90, 120, 151, 181, 212, 243, 273, 304, 334>>
    IN  cum[m] + (IF m > 2 /\ IsLeap(y) THEN 1 ELSE 0)

DayOfYear(d) == DaysBeforeMonth(YearOf(d), MonthOf(d)) + DayOf(d)

\* Days from 0001-01-01 (a Monday, ordinal 1) to the day d.
Ordinal(d) ==
    LET y == YearOf(d) - 1
    IN  365 * y + (y \div 4) - (y \div 100) + (y \div 400) + DayOfYear(d)

\* ISO weekday: 1 = Monday .. 7 = Sunday.
IsoWeekday(d) == ((Ordinal(d) - 1) % 7) + 1

\* Weekday of 31 December of year y (0 = Sunday .. 6 = Saturday).
Dec31(y) == (y + (y \div 4) - (y \div 100) + (y \div 400)) % 7

\* The number of ISO weeks of year y.
IsoWeeksIn(y) == IF Dec31(y) = 4 \/ Dec31(y - 1) = 3 THEN 53 ELSE 52

\* .dt.isocalendar().week
IsoWeek(d) ==
    LET w == (DayOfYear(d) - IsoWeekday(d) + 10) \div 7
    IN  IF w < 1 THEN IsoWeeksIn(YearOf(d) - 1)
        ELSE IF w > IsoWeeksIn(YearOf(d)) THEN 1
        ELSE w

\* str of a monthly period: "YYYY-MM".
PeriodStr(d) ==
    ToString(YearOf(d)) \o "-"
        \o (IF MonthOf(d) < 10 THEN "0" ELSE "") \o ToString(MonthOf(d))

-----------------------------------------------------------------------------
(* read_csv and the conversions load_data applies *)

file_name == "NFL_scores.csv"

required == <<"score_home", "score_away", "season", "week",
              "over_under_line", "spread_favorite", "team_home", "team_away">>

numeric_cols == {"season", "week", "score_home", "score_away",
                 "over_under_line", "spread_favorite"}

derived_cols == {"Year", "Month-Year", "Week", "total_points", "margin_home",
                 "Phase", "stadium"}

\* The tokens read_csv parses as booleans.
TrueTokens == {"True", "TRUE", "true"}
FalseTokens == {"False", "FALSE", "false"}

Column(rows, c) == {rows[i][c] : i \in 1..Len(rows)}

\* The dtype read_csv infers for a column from its cells.
ReadCsvDtype(cells) ==
    LET filled == cells \ {Blank}
    IN  IF \A x \in filled : x.k = "int"
        THEN (IF Blank \in cells \/ cells = {} THEN "float64" ELSE "int64")
        ELSE IF \A x \in filled : x.k = "text" /\ x.s \in TrueTokens \cup FalseTokens
        THEN (IF Blank \in cells THEN "object-bool" ELSE "bool")
        ELSE "object"

\* Series.astype(str) of one cell of a column read with the given dtype.
AsTypeStr(cell, dtype) ==
    CASE cell.k = "blank" -> "nan"
      [] cell.k = "int" ->
            IF dtype = "float64" THEN ToString(cell.n) \o ".0" ELSE ToString(cell.n)
      [] cell.k = "text" ->
            IF dtype \in {"bool", "object-bool"}
            THEN (IF cell.s \in TrueTokens THEN "True" ELSE "False")
            ELSE cell.s
      [] OTHER -> ToString(cell.n)

\* str.lower on the strings the playoff column can hold.
StrLower(x) ==
    CASE x \in {"True", "TRUE"} -> "true"
      [] x \in {"False", "FALSE"} -> "false"
      [] x \in {"YES", "Yes"} -> "yes"
      [] x = "Y" -> "y"
      [] x \in {"SI", "Si"} -> "si"
      [] x \in {"SÍ", "Sí"} -> "sí"
      [] x = "NO" -> "no"
      [] OTHER -> x

PlayoffTokens == {"1", "true", "yes", "y", "si", "sí"}

\* pd.to_numeric(errors="coerce") of one cell.
ToNumeric(cell) == IF cell.k = "int" THEN Num(cell.n) ELSE NaN

\* pd.to_datetime(errors="coerce") of one cell (a date, an empty or a text cell).
ToDatetime(cell) == IF cell.k = "date" THEN Date(cell.n) ELSE NaN

\* The value read_csv gives a cell of a column left as it is.
CellValue(cell) ==
    CASE cell.k = "blank" -> NaN
      [] cell.k = "int" -> Num(cell.n)
      [] cell.k = "text" -> Str(cell.s)
      [] OTHER -> Str(ToString(cell.n))

\* Series.astype(str) of a numeric column: floats (a column that holds a NaN)
\* print with a decimal point, and NaN prints as "nan".
NumAsStr(v, vals) ==
    IF IsNaN(v) THEN "nan"
    ELSE IF NaN \in vals THEN ToString(v.n) \o ".0"
    ELSE ToString(v.n)

\* Series.fillna(value)
FillNa(v, value) == IF IsNaN(v) THEN Str(value) ELSE v

\* The columns of `required` that the file lacks, in the order of `required`.
MissingColumns(columns) == SelectSeq(required, LAMBDA c : c \notin columns)

\* df["Phase"]: lines 99-105.
PhaseOf(rows, columns, i) ==
    IF "schedule_playoff" \in columns
    THEN LET dtype == ReadCsvDtype(Column(rows, "schedule_playoff"))
             playoff == StrLower(AsTypeStr(rows[i]["schedule_playoff"], dtype))
                            \in PlayoffTokens
         IN  IF playoff THEN "Playoffs" ELSE "Regular"
    ELSE "Regular"

\* One row of the table load_data returns.
NormalizeRow(rows, columns, i) ==
    LET raw == rows[i]
        num(c) == ToNumeric(raw[c])
        dt == ToDatetime(raw["schedule_date"])
        seasons == {ToNumeric(rows[j]["season"]) : j \in 1..Len(rows)}
        teamdt(c) == ReadCsvDtype(Column(rows, c))
    IN  [c \in columns \cup derived_cols |->
            CASE c \in numeric_cols -> num(c)
              [] c = "schedule_date" -> dt
              [] c = "Year" ->
                    IF "schedule_date" \in columns
                    THEN (IF IsNaN(dt) THEN NaN ELSE Num(YearOf(dt.n)))
                    ELSE num("season")
              [] c = "Month-Year" ->
                    IF "schedule_date" \in columns
                    THEN (IF IsNaN(dt) THEN Str("NaT") ELSE Str(PeriodStr(dt.n)))
                    ELSE Str(NumAsStr(num("season"), seasons))
              [] c = "Week" ->
                    IF "schedule_date" \in columns
                    THEN (IF IsNaN(dt) THEN NaN ELSE Num(IsoWeek(dt.n)))
                    ELSE num("week")
              [] c = "total_points" -> Add(num("score_home"), num("score_away"))
              [] c = "margin_home" -> Sub(num("score_home"), num("score_away"))
              [] c = "Phase" -> Str(PhaseOf(rows, columns, i))
              [] c = "stadium" -> FillNa(CellValue(raw["stadium"]), "Unknown")
              [] c \in {"team_home", "team_away"} ->
                    Str(AsTypeStr(raw[c], teamdt(c)))
              [] OTHER -> CellValue(raw[c])]

\* The table load_data returns for a file that has the columns it needs.
Normalize(f) ==
    [cols |-> f.columns \cup derived_cols,
     rows |-> [i \in 1..Len(f.rows) |-> NormalizeRow(f.rows, f.columns, i)]]

NoTable == [cols |-> {}, rows |-> <<>>]
NoError == [kind |-> "", missing |-> <<>>]
NoOutput == [sec |-> ""]

-----------------------------------------------------------------------------
(* Sorting and grouping as pandas does them *)

\* `ranked` holds the pair <<place, x>> of every x to be placed.
ByPlace(ranked, n) ==
    SubSeq([p \in 1..n |-> (CHOOSE pr \in ranked : pr[1] = p)[2]], 1, n)

RECURSIVE Buckets(_, _, _)
Buckets(key, sorted, p) ==
    IF p > Len(sorted) THEN <<>>
    ELSE SelectSeq(SubSeq([i \in 1..Len(key) |-> i], 1, Len(key)),
                   LAMBDA i : key[i] = sorted[p])
            \o Buckets(key, sorted, p + 1)

\* The indices of the sequence `key` in the order of a stable sort by key:
\* `sorted` holds the distinct keys in their order, and the indices that hold
\* each key follow one another as they stood.
StableOrder(key, sorted) == Buckets(key, sorted, 1)

Bijections(k) == {f \in [1..k -> 1..k] : \A i, j \in 1..k : i # j => f[i] # f[j]}

\* The length of the longest prefix of `order` whose elements all have the
\* key of its first element, a missing key being equal to none.
RECURSIVE RunLength(_, _)
RunLength(order, key) ==
    IF Len(order) <= 1 THEN Len(order)
    ELSE IF key[order[2]] = key[order[1]] /\ key[order[1]].k # "nan"
         THEN 1 + RunLength(Tail(order), key)
         ELSE 1

\* The orders an unstable sort (numpy's quicksort, the default kind of
\* sort_values on one column) may produce: `order` with the elements of each
\* run of equal keys in any order.  key[i] is the key of i; the elements
\* with a missing key keep their places (they are put last as they stood).
RECURSIVE UnstableOrders(_, _)
UnstableOrders(order, key) ==
    IF order = <<>> THEN {<<>>}
    ELSE LET k == RunLength(order, key)
             run == SubSeq(order, 1, k)
             rest == UnstableOrders(SubSeq(order, k + 1, Len(order)), key)
         IN  {[i \in 1..k |-> run[f[i]]] \o r : f \in Bijections(k), r \in rest}

\* The strings the model's tables hold, in lexicographic (code point) order.
StadiumName(k) == "S" \o (IF k < 10 THEN "0" ELSE "") \o ToString(k)

MaxStadiumNames == 30

StrOrder ==
    <<"1999", "1999.0", "2000", "2000-09", "2000-12", "2000.0", "2001",
      "2001-01", "2001.0", "2002", "2002.0", "2003", "2003.0",
      "A", "B", "NaT">>
    \o [k \in 1..MaxStadiumNames |-> StadiumName(k)]
    \o <<"Tie", "Unknown", "nan">>

StrRank(x) == CHOOSE i \in 1..Len(StrOrder) : StrOrder[i] = x

\* v < w for two present values of one column.
ValLess(v, w) ==
    IF v.k = "str" /\ w.k = "str" THEN StrRank(v.s) < StrRank(w.s) ELSE v.n < w.n

\* v sorts before w, ascending, missing values last.
AscBefore(v, w) == ~IsNaN(v) /\ (IsNaN(w) \/ ValLess(v, w))

\* The values of S in ascending order, a missing value last.
AscKeys(S) ==
    ByPlace({<<1 + Cardinality({w \in S : AscBefore(w, v)}), v>> : v \in S},
            Cardinality(S))

\* The pairs of S in ascending lexicographic order, missing values last.
LexBefore(x, y) == AscBefore(x[1], y[1]) \/ (x[1] = y[1] /\ AscBefore(x[2], y[2]))

LexKeys(S) ==
    ByPlace({<<1 + Cardinality({w \in S : LexBefore(w, v)}), v>> : v \in S},
            Cardinality(S))

MeanGreater(x, y) == x.k = "frac" /\ y.k = "frac" /\ x.num * y.den > y.num * x.den

\* x sorts before y, descending, missing values last.
DescBefore(x, y) == x.k = "frac" /\ (y.k = "nan" \/ MeanGreater(x, y))

\* The means of S in descending order, a missing mean last.
DescKeys(S) ==
    ByPlace({<<1 + Cardinality({w \in S : DescBefore(w, v)}), v>> : v \in S},
            Cardinality(S))

AscMeanKeys(S) ==
    ByPlace({<<1 + Cardinality({w \in S : w.k = "frac" /\ (v.k = "nan" \/ MeanGreater(v, w))}), v>> :
                v \in S}, Cardinality(S))
\* Series.mean() of a numeric column: missing values are skipped, and the
\* mean of no value is NaN.
RECURSIVE SumRange(_, _, _, _)
SumRange(rows, c, lo, hi) ==
    IF lo > hi THEN 0
    ELSE IF lo = hi THEN (IF IsNaN(rows[lo][c]) THEN 0 ELSE rows[lo][c].n)
    ELSE SumRange(rows, c, lo, (lo + hi) \div 2)
            + SumRange(rows, c, ((lo + hi) \div 2) + 1, hi)

SumOf(rows, c) == SumRange(rows, c, 1, Len(rows))

CountOf(rows, c) == Cardinality({i \in 1..Len(rows) : ~IsNaN(rows[i][c])})

MeanOf(rows, c) ==
    IF CountOf(rows, c) = 0 THEN NoMean ELSE Frac(SumOf(rows, c), CountOf(rows, c))

\* (boolean Series).mean() * 100 of a Series of `total` values of which
\* `hits` are True: every row counts in the denominator.
PercentOf(hits, total) == Frac(100 * hits, total)

\* df.groupby(key).agg(Games=("total_points", "count"),
\*                     AvgTotalPoints=("total_points", "mean")).reset_index():
\* one group per present key value, in ascending key order; rows whose key
\* is missing belong to no group; "count" counts the present total_points.
GroupAgg(rows, key) ==
    LET keys == {rows[i][key] : i \in 1..Len(rows)} \ {NaN}
        sorted == ByPlace({<<1 + Cardinality({w \in keys : ValLess(w, v)}), v>> :
                                v \in keys}, Cardinality(keys))
        members(v) == SelectSeq(rows, LAMBDA r : r[key] = v)
    IN  SubSeq([p \in 1..Len(sorted) |->
                    [key |-> sorted[p],
                     Games |-> CountOf(members(sorted[p]), "total_points"),
                     AvgTotalPoints |-> MeanOf(members(sorted[p]), "total_points")]],
               1, Len(sorted))

\* The metric column of an aggregate as a mean record, so that both metrics
\* compare the same way.
MetricOf(g, col) == IF col = "Games" THEN Frac(g.Games, 1) ELSE g.AvgTotalPoints

\* DataFrame.head(n)
Head_n(sq, n) == SubSeq(sq, 1, IF Len(sq) < n THEN Len(sq) ELSE n)

SortAscOutcomes(agg, col) ==
    LET n == Len(agg)
        key == SubSeq([i \in 1..n |-> MetricOf(agg[i], col)], 1, n)
        order == StableOrder(key, AscMeanKeys(SeqToSet(key)))
    IN  {[p \in 1..n |-> agg[o[p]]] : o \in UnstableOrders(order, key)}

\* The results sort_values(col, ascending=False) may give for an aggregate:
\* descending by the metric, missing metrics last in their original order,
\* equal metrics in an order the sort kind (quicksort) does not fix.
SortDescOutcomes(agg, col) ==
    LET n == Len(agg)
        key == SubSeq([i \in 1..n |-> MetricOf(agg[i], col)], 1, n)
        order == StableOrder(key, DescKeys(SeqToSet(key)))
    IN  {[p \in 1..n |-> agg[o[p]]] : o \in UnstableOrders(order, key)}

-----------------------------------------------------------------------------
(* The input files *)

optional_cols == {"schedule_date", "schedule_playoff", "stadium"}

AllColumns == SeqToSet(required) \cup optional_cols

MaxRows == 3
MaxMissing == 2
BaseStadiums == 20
MaxExtra == 2

RawRow(home, away, sh, sa, season, week, stadium, playoff, date) ==
    [c \in AllColumns |->
        CASE c = "team_home" -> home
          [] c = "team_away" -> away
          [] c = "score_home" -> sh
          [] c = "score_away" -> sa
          [] c = "season" -> season
          [] c = "week" -> week
          [] c = "stadium" -> stadium
          [] c = "schedule_playoff" -> playoff
          [] c = "schedule_date" -> date
          [] c = "over_under_line" -> IntTok(40)
          [] OTHER -> Blank]

\* The rows the small files are made of.
Catalogue ==
    <<RawRow(Text("A"), Text("B"), IntTok(20), IntTok(17), IntTok(2000), IntTok(1),
             Text("S01"), IntTok(1), DateTok(20000910)),
      RawRow(Text("B"), Text("A"), IntTok(10), IntTok(10), IntTok(2001), IntTok(2),
             Blank, Blank, DateTok(20010107)),
      RawRow(Text("Tie"), Text("A"), IntTok(24), IntTok(7), IntTok(2003), IntTok(1),
             Text("S02"), Text("YES"), Blank),
      RawRow(Text("A"), Text("Tie"), Blank, IntTok(14), Blank, Blank,
             Text("S01"), Text("TRUE"), DateTok(20001231)),
      RawRow(Text("B"), Text("A"), IntTok(3), IntTok(6), IntTok(2000), IntTok(2),
             Text("S02"), IntTok(0), DateTok(20000910)),
      RawRow(Text("B"), Text("B"), IntTok(7), Text("x"), IntTok(2001), IntTok(1),
             Text("S03"), Text("no"), DateTok(20001231))>>

Project(row, columns) == [c \in columns |-> row[c]]

RECURSIVE SeqsUpTo(_, _)
SeqsUpTo(S, n) ==
    IF n = 0 THEN {<<>>}
    ELSE LET shorter == SeqsUpTo(S, n - 1)
         IN  shorter \cup {Append(t, x) : t \in {u \in shorter : Len(u) = n - 1}, x \in S}

SubsetsUpTo(S, n) == {d \in SUBSET S : Cardinality(d) <= n}

\* Files that load: every required column and the stadium column, with or
\* without the date and the playoff column.
SmallFiles ==
    {[exists |-> TRUE,
      columns |-> AllColumns \ drop,
      rows |-> [i \in 1..Len(t) |-> Project(Catalogue[t[i]], AllColumns \ drop)]] :
        drop \in SUBSET {"schedule_date", "schedule_playoff"},
        t \in SeqsUpTo(1..Len(Catalogue), MaxRows)}

\* Files that lack up to MaxMissing of the columns load_data reads.
LackingFiles ==
    {[exists |-> TRUE,
      columns |-> AllColumns \ drop,
      rows |-> [i \in 1..Len(t) |-> Project(Catalogue[t[i]], AllColumns \ drop)]] :
        drop \in SubsetsUpTo(SeqToSet(required) \cup {"stadium"}, MaxMissing) \ {{}},
        t \in SeqsUpTo({1, 2}, 1)}

\* Files with more stadiums than the stadium chart keeps: stadium k of
\* 1..BaseStadiums has k games of 2 * (BaseStadiums - k) + 3 points each, and
\* up to MaxExtra further rows follow.
Triangle(k) == (k * (k + 1)) \div 2

BaseRow(j) ==
    LET k == CHOOSE m \in 1..BaseStadiums : Triangle(m - 1) < j /\ j <= Triangle(m)
    IN  RawRow(Text("A"), Text("B"), IntTok(2 * (BaseStadiums - k) + 3), IntTok(0),
               IntTok(2000), IntTok(1), Text(StadiumName(k)), IntTok(0), Blank)

ExtraRows ==
    <<RawRow(Text("B"), Text("A"), IntTok(1), IntTok(0), IntTok(2000), IntTok(1),
             Text(StadiumName(BaseStadiums + 1)), IntTok(0), Blank),
      RawRow(Text("B"), Text("A"), IntTok(2 * BaseStadiums + 1), IntTok(0),
             IntTok(2000), IntTok(1),
             Text(StadiumName(BaseStadiums + 2)), IntTok(0), Blank),
      RawRow(Text("A"), Text("B"), Blank, IntTok(0), IntTok(2000), IntTok(1),
             Blank, IntTok(0), Blank),
      RawRow(Text("A"), Text("B"), IntTok(2 * BaseStadiums - 1), IntTok(0),
             IntTok(2000), IntTok(1),
             Text(StadiumName(1)), IntTok(0), Blank)>>

LargeFiles ==
    LET columns == AllColumns \ {"schedule_date"}
        base == [j \in 1..Triangle(BaseStadiums) |-> Project(BaseRow(j), columns)]
    IN  {[exists |-> TRUE,
          columns |-> columns,
          rows |-> base \o [i \in 1..Len(t) |-> Project(ExtraRows[t[i]], columns)]] :
            t \in SeqsUpTo(1..Len(ExtraRows), MaxExtra)}

NoFile == [exists |-> FALSE, columns |-> {}, rows |-> <<>>]

Files == {NoFile} \cup SmallFiles \cup LackingFiles \cup LargeFiles

-----------------------------------------------------------------------------
(* The script *)

Init ==
    /\ file \in Files
    /\ pc = "load"
    /\ df = NoTable
    /\ err = NoError
    /\ out = NoOutput
    /\ shown = <<>>

\* load_data(), lines 65-111 and 113.  SystemExit ends the script; the
\* AttributeError of "Unknown".fillna (no stadium column: DataFrame.get
\* returns the default string) ends it as well.
Load ==
    /\ pc = "load"
    /\ \/ /\ ~file.exists
          /\ err' = [kind |-> "Archivo no encontrado", missing |-> <<>>]
          /\ shown' = Append(shown, "st.error")
          /\ pc' = "exit"
          /\ df' = df
       \/ /\ file.exists
          /\ MissingColumns(file.columns) # <<>>
          /\ err' = [kind |-> "Columnas faltantes",
                     missing |-> MissingColumns(file.columns)]
          /\ shown' = Append(shown, "st.error")
          /\ pc' = "exit"
          /\ df' = df
       \/ /\ file.exists
          /\ MissingColumns(file.columns) = <<>>
          /\ "stadium" \notin file.columns
          /\ err' = [kind |-> "AttributeError", missing |-> <<>>]
          /\ pc' = "crash"
          /\ UNCHANGED <<df, shown>>
       \/ /\ file.exists
          /\ MissingColumns(file.columns) = <<>>
          /\ "stadium" \in file.columns
          /\ df' = Normalize(file)
          /\ pc' = "kpi"
          /\ UNCHANGED <<err, shown>>
    /\ UNCHANGED <<file, out>>

\* Where the script goes on after a section has made the call `call`: the
\* notices (st.warning, st.info) are branches of an if/else that fall through
\* to the next section; nothing after load_data stops the script.
AfterSectionStops(sec, call) ==
    IF call \in {"st.warning", "st.info"} THEN "exit"
    ELSE CASE sec = "kpi" -> "tab1"
           [] sec = "tab1" -> "tab2"
           [] sec = "tab2" -> "tab3"
           [] OTHER -> "done"

AfterSection(sec, call) ==
    CASE sec = "kpi" -> "tab1"
      [] sec = "tab1" -> "tab2"
      [] sec = "tab2" -> "tab3"
      [] OTHER -> "done"

kpi_options == <<"Total Games", "Avg Total Points/Game", "Home Win Rate",
                 "Close Games (±3 pts)">>

BetweenExclusive(v, lo, hi) == v.k = "num" /\ lo < v.n /\ v.n < hi

\* Series.between(lo, hi): inclusive on both sides, False for a missing value.
Between(v, lo, hi) == v.k = "num" /\ lo <= v.n /\ v.n <= hi

\* df[df["season"].between(lo, hi)], line 129.
SeasonFilter(rows, lo, hi) == SelectSeq(rows, LAMBDA r : Between(r["season"], lo, hi))

KpiValueTiesAsWins(rows, option) ==
    CASE option = "Total Games" -> Frac(Len(rows), 1)
      [] option = "Avg Total Points/Game" -> MeanOf(rows, "total_points")
      [] option = "Home Win Rate" ->
            PercentOf(Cardinality({i \in 1..Len(rows) :
                        Gt0(rows[i]["margin_home"]) \/ rows[i]["margin_home"] = Num(0)}),
                      Len(rows))
      [] OTHER ->
            PercentOf(Cardinality({i \in 1..Len(rows) : AbsLe3(rows[i]["margin_home"])}),
                      Len(rows))

\* val, lines 140-155.
KpiValue(rows, option) ==
    CASE option = "Total Games" -> Frac(Len(rows), 1)
      [] option = "Avg Total Points/Game" -> MeanOf(rows, "total_points")
      [] option = "Home Win Rate" ->
            PercentOf(Cardinality({i \in 1..Len(rows) : Gt0(rows[i]["margin_home"])}),
                      Len(rows))
      [] OTHER ->
            PercentOf(Cardinality({i \in 1..Len(rows) : AbsLe3(rows[i]["margin_home"])}),
                      Len(rows))

\* The present seasons of the table: min() and max() skip missing values.
Seasons(rows) == {rows[i]["season"].n : i \in {j \in 1..Len(rows) : ~IsNaN(rows[j]["season"])}}

SetMin(S) == CHOOSE x \in S : \A y \in S : x <= y
SetMax(S) == CHOOSE x \in S : \A y \in S : y <= x

\* The KPI block, lines 116-157.  int(NaN) raises ValueError when the table
\* has no season at all; the slider returns any range within its limits.
Kpi ==
    /\ pc = "kpi"
    /\ \/ /\ Seasons(df.rows) = {}
          /\ err' = [kind |-> "ValueError", missing |-> <<>>]
          /\ pc' = "crash"
          /\ UNCHANGED <<out, shown>>
       \/ /\ Seasons(df.rows) # {}
          /\ \E lo, hi \in SetMin(Seasons(df.rows))..SetMax(Seasons(df.rows)) :
             \E o \in 1..Len(kpi_options) :
                LET df_kpi == SeasonFilter(df.rows, lo, hi)
                IN  /\ lo <= hi
                    /\ out' = [sec |-> "kpi",
                               rango_temp |-> <<lo, hi>>,
                               kpi_option |-> kpi_options[o],
                               df_kpi |-> df_kpi,
                               metric |-> IF df_kpi = <<>> THEN <<>>
                                          ELSE <<KpiValue(df_kpi, kpi_options[o])>>]
                    /\ shown' = Append(shown, IF df_kpi = <<>> THEN "st.warning"
                                              ELSE "st.metric")
                    /\ pc' = AfterSection("kpi", IF df_kpi = <<>> THEN "st.warning"
                                                 ELSE "st.metric")
          /\ err' = err
    /\ UNCHANGED <<file, df>>

\* sorted(pd.unique(pd.concat([df["team_home"], df["team_away"]]))), line 178.
Teams(rows) ==
    {rows[i]["team_home"].s : i \in 1..Len(rows)}
        \cup {rows[i]["team_away"].s : i \in 1..Len(rows)}

MaskOneWay(r, team_a, team_b) ==
    r["team_home"].s = team_a /\ r["team_away"].s = team_b

\* mask, lines 189-192.
Mask(r, team_a, team_b) ==
    \/ r["team_home"].s = team_a /\ r["team_away"].s = team_b
    \/ r["team_home"].s = team_b /\ r["team_away"].s = team_a

\* df[mask].copy(), line 193: a new table of the selected rows.
H2HRows(rows, team_a, team_b) == SelectSeq(rows, LAMBDA r : Mask(r, team_a, team_b))

\* The orders h2h.sort_values may give, lines 198-201: one date column is
\* sorted by the default kind, which fixes no order among equal dates (NaT
\* last); the two columns season, week are sorted lexicographically by a
\* stable sort (missing values last).
H2HOrders(rows, cols) ==
    LET n == Len(rows)
    IN  IF "schedule_date" \in cols
        THEN LET key == SubSeq([i \in 1..n |-> rows[i]["schedule_date"]], 1, n)
             IN  UnstableOrders(StableOrder(key, AscKeys(SeqToSet(key))), key)
        ELSE LET key == SubSeq([i \in 1..n |->
                                    <<rows[i]["season"], rows[i]["week"]>>], 1, n)
             IN  {StableOrder(key, LexKeys(SeqToSet(key)))}

\* h2h["winner"], lines 203-206.
Winner(r) ==
    IF Gt0(r["margin_home"]) THEN r["team_home"].s
    ELSE IF Lt0(r["margin_home"]) THEN r["team_away"].s
    ELSE "Tie"

WithWinner(r) ==
    [c \in DOMAIN r \cup {"winner"} |-> IF c = "winner" THEN Str(Winner(r)) ELSE r[c]]

CountWinner(rows, name) ==
    Cardinality({i \in 1..Len(rows) : rows[i]["winner"].s = name})

\* games, wins_a, wins_b, ties, avg_pts, lines 208-212.
H2HStats(h2h, team_a, team_b) ==
    [games |-> Len(h2h),
     wins_a |-> CountWinner(h2h, team_a),
     wins_b |-> CountWinner(h2h, team_b),
     ties |-> CountWinner(h2h, "Tie"),
     avg_pts |-> MeanOf(h2h, "total_points")]

Tab1InPlace ==
    /\ pc = "tab1"
    /\ Cardinality(Teams(df.rows)) >= 2
    /\ \E team_a, team_b \in Teams(df.rows) :
          /\ out' = [sec |-> "tab1", team_a |-> team_a, team_b |-> team_b,
                     h2h |-> <<>>, stats |-> <<>>]
          /\ df' = [cols |-> df.cols \cup {"winner"},
                    rows |-> [i \in 1..Len(df.rows) |-> WithWinner(df.rows[i])]]
    /\ shown' = Append(shown, "st.dataframe")
    /\ pc' = "tab2"
    /\ UNCHANGED <<file, err>>

\* The head-to-head tab, lines 171-228.  A selectbox whose default index 1
\* is past the end of a one-team list raises StreamlitAPIException.
Tab1 ==
    /\ pc = "tab1"
    /\ \/ /\ Cardinality(Teams(df.rows)) < 2
          /\ err' = [kind |-> "StreamlitAPIException", missing |-> <<>>]
          /\ pc' = "crash"
          /\ UNCHANGED <<out, shown>>
       \/ /\ Cardinality(Teams(df.rows)) >= 2
          /\ \E team_a, team_b \in Teams(df.rows) :
                LET sel == H2HRows(df.rows, team_a, team_b)
                IN
                \/ /\ team_a = team_b
                   /\ out' = [sec |-> "tab1", team_a |-> team_a, team_b |-> team_b,
                              h2h |-> <<>>, stats |-> <<>>]
                   /\ shown' = Append(shown, "st.info")
                   /\ pc' = AfterSection("tab1", "st.info")
                \/ /\ team_a # team_b
                   /\ sel = <<>>
                   /\ out' = [sec |-> "tab1", team_a |-> team_a, team_b |-> team_b,
                              h2h |-> <<>>, stats |-> <<>>]
                   /\ shown' = Append(shown, "st.warning")
                   /\ pc' = AfterSection("tab1", "st.warning")
                \/ /\ team_a # team_b
                   /\ sel # <<>>
                   /\ \E o \in H2HOrders(sel, df.cols) :
                        LET h2h == [p \in 1..Len(sel) |-> WithWinner(sel[o[p]])]
                        IN  out' = [sec |-> "tab1", team_a |-> team_a,
                                    team_b |-> team_b, h2h |-> h2h,
                                    stats |-> <<H2HStats(h2h, team_a, team_b)>>]
                   /\ shown' = Append(shown, "st.dataframe")
                   /\ pc' = AfterSection("tab1", "st.dataframe")
          /\ err' = err
    /\ UNCHANGED <<file, df>>

time_groups == <<"Month-Year", "Week", "Year">>
metrics == <<"Games", "Avg Total Points">>

\* y_col and kpi_col, lines 253 and 272.
MetricColumn(label) == IF label = "Games" THEN "Games" ELSE "AvgTotalPoints"

\* The time tab, lines 231-256.
Tab2 ==
    /\ pc = "tab2"
    /\ \E g \in 1..Len(time_groups), m \in 1..Len(metrics) :
          out' = [sec |-> "tab2", tgrp |-> time_groups[g],
                  y_col |-> MetricColumn(metrics[m]),
                  df_time |-> GroupAgg(df.rows, time_groups[g])]
    /\ shown' = Append(shown, "st.plotly_chart")
    /\ pc' = AfterSection("tab2", "st.plotly_chart")
    /\ UNCHANGED <<file, df, err>>

TopGroups == 20

\* The stadium tab, lines 259-287.
Tab3 ==
    /\ pc = "tab3"
    /\ \E m \in 1..Len(metrics) :
       \E sorted \in SortDescOutcomes(GroupAgg(df.rows, "stadium"),
                                      MetricColumn(metrics[m])) :
          out' = [sec |-> "tab3", kpi_col |-> MetricColumn(metrics[m]),
                  df_geo |-> Head_n(sorted, TopGroups)]
    /\ shown' = Append(shown, "st.plotly_chart")
    /\ pc' = AfterSection("tab3", "st.plotly_chart")
    /\ UNCHANGED <<file, df, err>>

\* A widget change reruns the script from the top; st.cache_data hands
\* load_data's table back without running it again.
Rerun ==
    /\ pc = "done"
    /\ pc' = "kpi"
    /\ out' = NoOutput
    /\ shown' = <<>>
    /\ UNCHANGED <<file, df, err>>

Next == Load \/ Kpi \/ Tab1 \/ Tab2 \/ Tab3 \/ Rerun

Spec == Init /\ [][Next]_vars

-----------------------------------------------------------------------------
(* The claims *)

Loaded == pc \in {"kpi", "tab1", "tab2", "tab3", "done"} \/ (pc = "crash" /\ df # NoTable)

RECURSIVE TotalGames(_)
TotalGames(agg) == IF agg = <<>> THEN 0 ELSE agg[1].Games + TotalGames(Tail(agg))

\* C1: in a head-to-head of two different teams with at least one matched
\* row, every row's winner is one of A, B, "Tie" (the home team if the margin
\* is positive, the away team if it is negative, "Tie" if it is zero) and
\* wins of A + wins of B + ties = total games.  The code counts a row won by
\* a team named "Tie" twice.
C1_WinnerPartition ==
    (out.sec = "tab1" /\ out.stats # <<>>) =>
        /\ \A i \in 1..Len(out.h2h) :
              LET r == out.h2h[i]
                  w == r["winner"].s
              IN  /\ w \in {out.team_a, out.team_b, "Tie"}
                  /\ Gt0(r["margin_home"]) => w = r["team_home"].s
                  /\ Lt0(r["margin_home"]) => w = r["team_away"].s
                  /\ r["margin_home"] = Num(0) => w = "Tie"
        /\ out.stats[1].wins_a + out.stats[1].wins_b + out.stats[1].ties
              = out.stats[1].games

C3_StadiumNeverEmpty ==
    (pc # "load" /\ file.exists /\ MissingColumns(file.columns) = <<>>) =>
        /\ err.kind \notin {"Archivo no encontrado", "Columnas faltantes",
                            "AttributeError"}
        /\ Len(df.rows) = Len(file.rows)
        /\ \A i \in 1..Len(df.rows) :
              /\ df.rows[i]["stadium"].k = "str"
              /\ df.rows[i]["stadium"].s # ""
              /\ ("stadium" \notin file.columns \/ file.rows[i]["stadium"] = Blank)
                    => df.rows[i]["stadium"].s = "Unknown"

\* The permutation of an aggregate that a stable descending sort gives.
StableSortDesc(agg, col) ==
    LET n == Len(agg)
        key == SubSeq([i \in 1..n |-> MetricOf(agg[i], col)], 1, n)
        order == StableOrder(key, DescKeys(SeqToSet(key)))
    IN  [p \in 1..n |-> agg[order[p]]]

\* C4 as stated: the stadium chart holds at most 20 groups, sorted descending
\* by the selected metric, groups of equal metric in their original order
\* (a stable sort), and the 20 kept are the first 20 of that ordering.
C4_StableTop20 ==
    out.sec = "tab3" =>
        out.df_geo = Head_n(StableSortDesc(GroupAgg(df.rows, "stadium"), out.kpi_col), 20)

\* C4 as amended: the stadium chart holds at most 20 groups, each a group of
\* the aggregation and none twice, sorted descending by the selected metric
\* with the groups whose metric is missing last, and no group left out has a
\* greater metric than a group kept; the order of groups of equal metric is
\* not fixed.
C4_SortedTop20 ==
    out.sec = "tab3" =>
        LET agg == GroupAgg(df.rows, "stadium")
            geo == out.df_geo
            m(g) == MetricOf(g, out.kpi_col)
            NotBelow(x, y) == y.k = "nan" \/ (x.k = "frac" /\ ~MeanGreater(y, x))
        IN  /\ Len(geo) <= 20
            /\ Len(geo) = (IF Len(agg) < 20 THEN Len(agg) ELSE 20)
            /\ \A p \in 1..Len(geo) : geo[p] \in SeqToSet(agg)
            /\ \A p, q \in 1..Len(geo) : p < q => geo[p] # geo[q]
            /\ \A p, q \in 1..Len(geo) : p < q => NotBelow(m(geo[p]), m(geo[q]))
            /\ \A g \in SeqToSet(agg) \ SeqToSet(geo) :
                  \A p \in 1..Len(geo) : NotBelow(m(geo[p]), m(g))

\* C4's case: more than 20 stadiums, truncated to 20, with two groups of
\* equal metric of which the later one of the aggregation comes first.
C4_Witness ==
    /\ out.sec = "tab3"
    /\ Len(GroupAgg(df.rows, "stadium")) > 20
    /\ Len(out.df_geo) = 20
    /\ \E p, q \in 1..20 :
          /\ p < q
          /\ MetricOf(out.df_geo[p], out.kpi_col) = MetricOf(out.df_geo[q], out.kpi_col)
          /\ ValLess(out.df_geo[q].key, out.df_geo[p].key)

Pairing(team_a, team_b) ==
    {i \in 1..Len(df.rows) :
        <<df.rows[i]["team_home"].s, df.rows[i]["team_away"].s>>
            \in {<<team_a, team_b>>, <<team_b, team_a>>}}

\* C5: head-to-head selection is symmetric: for two different teams A, B the
\* selections for (A, B) and for (B, A) are the same rows, exactly the rows
\* whose (home, away) is (A, B) or (B, A), with the same total games and ties
\* and the wins of A and B swapped; the tab shows that selection.
C5_H2HSymmetric ==
    out.sec = "tab1" =>
        /\ \A a, b \in Teams(df.rows) :
              a # b =>
                LET ab == H2HRows(df.rows, a, b)
                    ba == H2HRows(df.rows, b, a)
                    sab == H2HStats([i \in 1..Len(ab) |-> WithWinner(ab[i])], a, b)
                    sba == H2HStats([i \in 1..Len(ba) |-> WithWinner(ba[i])], b, a)
                IN  /\ Len(ab) = Cardinality(Pairing(a, b))
                    /\ SeqToSet(ab) = {df.rows[i] : i \in Pairing(a, b)}
                    /\ ba = ab
                    /\ sab.games = sba.games
                    /\ sab.ties = sba.ties
                    /\ sab.wins_a = sba.wins_b
                    /\ sab.wins_b = sba.wins_a
        /\ (out.sec = "tab1" /\ out.team_a # out.team_b) =>
              LET ba == H2HRows(df.rows, out.team_b, out.team_a)
                  sba == H2HStats([i \in 1..Len(ba) |-> WithWinner(ba[i])],
                                  out.team_b, out.team_a)
              IN  /\ Len(out.h2h) = Len(ba)
                  /\ SeqToSet(out.h2h) = {WithWinner(ba[i]) : i \in 1..Len(ba)}
                  /\ out.stats # <<>> =>
                        /\ out.stats[1].games = sba.games
                        /\ out.stats[1].ties = sba.ties
                        /\ out.stats[1].wins_a = sba.wins_b
                        /\ out.stats[1].wins_b = sba.wins_a

\* C5's case: a head-to-head shown whose rows have either team at home and
\* whose two win counts differ.
C5_Witness ==
    /\ out.sec = "tab1"
    /\ out.stats # <<>>
    /\ \E i, j \in 1..Len(out.h2h) :
          /\ out.h2h[i]["team_home"].s = out.team_a
          /\ out.h2h[j]["team_home"].s = out.team_b
    /\ out.stats[1].wins_a # out.stats[1].wins_b

InRange == {i \in 1..Len(df.rows) :
                /\ df.rows[i]["season"].k = "num"
                /\ out.rango_temp[1] <= df.rows[i]["season"].n
                /\ df.rows[i]["season"].n <= out.rango_temp[2]}

HomeWins == {i \in InRange : df.rows[i]["margin_home"].k = "num"
                                /\ df.rows[i]["margin_home"].n > 0}

CloseOnes == {i \in InRange : df.rows[i]["margin_home"].k = "num"
                                /\ df.rows[i]["margin_home"].n >= -3
                                /\ df.rows[i]["margin_home"].n <= 3}

\* C6: a Home Win Rate or Close Games value is a percentage in [0, 100]:
\* 100 * (rows with margin > 0, or with |margin| <= 3) / (all filtered rows);
\* when the season-filtered set is empty no value is produced and a warning
\* is shown.
C6_KpiPercent ==
    out.sec = "kpi" =>
        /\ InRange = {} => (out.metric = <<>> /\ shown[Len(shown)] = "st.warning")
        /\ InRange # {} => (out.metric # <<>> /\ shown[Len(shown)] = "st.metric")
        /\ (out.metric # <<>> /\ out.kpi_option = "Home Win Rate") =>
              /\ out.metric[1].k = "frac"
              /\ out.metric[1].num * Cardinality(InRange)
                    = 100 * Cardinality(HomeWins) * out.metric[1].den
              /\ 0 <= out.metric[1].num
              /\ out.metric[1].num <= 100 * out.metric[1].den
        /\ (out.metric # <<>> /\ out.kpi_option = "Close Games (±3 pts)") =>
              /\ out.metric[1].k = "frac"
              /\ out.metric[1].num * Cardinality(InRange)
                    = 100 * Cardinality(CloseOnes) * out.metric[1].den
              /\ 0 <= out.metric[1].num
              /\ out.metric[1].num <= 100 * out.metric[1].den

\* C6's case: a Home Win Rate strictly between 0 and 100 over rows of which
\* one is a tie and one has no margin.
C6_Witness ==
    /\ out.sec = "kpi"
    /\ out.kpi_option = "Home Win Rate"
    /\ out.metric # <<>>
    /\ 0 < out.metric[1].num
    /\ out.metric[1].num < 100 * out.metric[1].den
    /\ \E i, j \in InRange :
          /\ df.rows[i]["margin_home"] = Num(0)
          /\ IsNaN(df.rows[j]["margin_home"])

\* C7: the season filter with the range (lo, hi) keeps exactly the rows with
\* lo <= season <= hi, in their order: the rows at either boundary are kept,
\* every row below lo or above hi is left out.
C7_SeasonFilterInclusive ==
    out.sec = "kpi" =>
        /\ Len(out.df_kpi) = Cardinality(InRange)
        /\ SeqToSet(out.df_kpi) = {df.rows[i] : i \in InRange}
        /\ \A p \in 1..Len(out.df_kpi) :
              /\ out.df_kpi[p]["season"].n >= out.rango_temp[1]
              /\ out.df_kpi[p]["season"].n <= out.rango_temp[2]

\* C7's case: rows at both boundaries are kept while a row below and a row
\* above the range are left out.
C7_Witness ==
    /\ out.sec = "kpi"
    /\ \E p, q \in 1..Len(out.df_kpi) :
          /\ out.df_kpi[p]["season"].n = out.rango_temp[1]
          /\ out.df_kpi[q]["season"].n = out.rango_temp[2]
    /\ \E i, j \in 1..Len(df.rows) :
          /\ df.rows[i]["season"].k = "num"
          /\ df.rows[i]["season"].n < out.rango_temp[1]
          /\ df.rows[j]["season"].k = "num"
          /\ df.rows[j]["season"].n > out.rango_temp[2]
    /\ Len(out.df_kpi) < Len(df.rows)

\* The text of a cell, folded to lower case.
TokenText(cell) ==
    CASE cell.k = "blank" -> ""
      [] cell.k = "int" -> ToString(cell.n)
      [] OTHER -> StrLower(cell.s)

\* C8: a row's phase is "Playoffs" if and only if the playoff column exists
\* and the row's value, compared case-insensitively, is one of 1, true, yes,
\* y, si, sí; otherwise it is "Regular".  The code reads a 1 in a column that
\* also has an empty cell as the float 1.0, whose string "1.0" is no token.
C8_PhaseIffToken ==
    Loaded =>
        \A i \in 1..Len(df.rows) :
            /\ df.rows[i]["Phase"].s \in {"Playoffs", "Regular"}
            /\ df.rows[i]["Phase"].s = "Playoffs"
                  <=> /\ "schedule_playoff" \in file.columns
                      /\ TokenText(file.rows[i]["schedule_playoff"]) \in PlayoffTokens

\* C9: a missing file, or a missing required column, fails the load (the
\* missing file first; the message names exactly the absent required
\* columns) and nothing downstream runs; the recoverable conditions (same
\* team twice, no head-to-head history, empty season range) do not stop the
\* run: the script goes on to the next section and a pass that ends has
\* rendered all four sections.
C9_FatalLoadRecoverableViews ==
    /\ (pc # "load" /\ ~file.exists) =>
          /\ pc = "exit"
          /\ err = [kind |-> "Archivo no encontrado", missing |-> <<>>]
          /\ df = NoTable /\ out = NoOutput /\ shown = <<"st.error">>
    /\ (pc # "load" /\ file.exists /\ SeqToSet(required) \ file.columns # {}) =>
          /\ pc = "exit"
          /\ err.kind = "Columnas faltantes"
          /\ SeqToSet(err.missing) = SeqToSet(required) \ file.columns
          /\ Len(err.missing) = Cardinality(SeqToSet(required) \ file.columns)
          /\ df = NoTable /\ out = NoOutput /\ shown = <<"st.error">>
    /\ pc = "exit" => (~file.exists \/ SeqToSet(required) \ file.columns # {})
    /\ (out.sec = "kpi" /\ out.metric = <<>>) => pc = "tab1"
    /\ (out.sec = "tab1" /\ out.stats = <<>>) => pc = "tab2"
    /\ pc = "done" =>
          /\ Len(shown) = 4
          /\ shown[1] \in {"st.warning", "st.metric"}
          /\ shown[2] \in {"st.info", "st.warning", "st.dataframe"}
          /\ shown[3] = "st.plotly_chart" /\ shown[4] = "st.plotly_chart"
          /\ out.sec = "tab3"

\* C9's case: a pass that met an empty season range and the same team chosen
\* twice has rendered the time and the stadium views.
C9_Witness ==
    /\ pc = "done"
    /\ shown = <<"st.warning", "st.info", "st.plotly_chart", "st.plotly_chart">>
    /\ out.sec = "tab3"

\* C10: after a successful load no render pass changes the table: whatever
\* the selections, the KPI filter, the head-to-head view and the two
\* aggregations leave its rows and columns as load_data returned them.
C10_TableReadOnly ==
    Loaded => df = Normalize(file)

\* C10's case: the head-to-head view has reordered its rows and added the
\* winner column, and the table is as loaded.
C10_Witness ==
    /\ out.sec = "tab1"
    /\ Len(out.h2h) >= 2
    /\ "winner" \in DOMAIN out.h2h[1]
    /\ "winner" \notin df.cols
    /\ out.h2h # [i \in 1..Len(out.h2h) |->
                    WithWinner(H2HRows(df.rows, out.team_a, out.team_b)[i])]
    /\ df = Normalize(file)

====
